---- MODULE Spec2Model ----
(***************************************************************************)
(* A model of the powertask scheduler (powertask.h, powertask_builtin.c):  *)
(* the registry search tree, the circular doubly linked list of runnable   *)
(* tasks with its cursor, and the single-step dispatcher.                  *)
(*                                                                         *)
(* A task instance is identified by the ID of its attribute struct;        *)
(* pointers to task instances are IDs and NULL is the null pointer.        *)
(* The fields of powertask_task_t are functions over the IDs.              *)
(***************************************************************************)
EXTENDS Integers, Sequences, FiniteSets, TLC

----------------------------------------------------------------------------
(* Bounds of the model *)

\* number of task descriptors the application registers
NumApp == 2
\* powertask_make_runnable calls one invocation of a task function makes
MaxCalls == 1

----------------------------------------------------------------------------
(* Program constants *)

NULL == 0
powertask_ID_builtin_idle == 65535
POWERTASK_RESULT_OK == 4097
POWERTASK_RESULT_RETRY == 4351
POWERTASK_RESULT_FIRST == 4096
POWERTASK_RESULT_FAIL_QUIET == 8192
POWERTASK_RESULT_FAIL_OUTPUT == 16384
POWERTASK_RESULT_LAST == 24576
\* the characters 'A' and 'B' that example_ABC.c stores
char_A == 65
char_B == 66

\* the IDs of the application's descriptors: 0x1000, 0x2000, ... (the range
\* powertask.h leaves to applications)
AppIDs == {4096 * i : i \in 1..NumApp}
\* one more ID of that range: no descriptor of the application has it, a
\* larger application has a descriptor for it too
WideIDs == AppIDs \cup {4096 * (NumApp + 1)}
IDs == WideIDs \cup {powertask_ID_builtin_idle}
\* the values the battery takes: the 30000 it starts with, and empty
Batteries == {30000, 0}

\* the result codes a task function returns in the model: the two exact
\* codes, the first code of each failure range, and a code outside the set
ResultCodes ==
    {POWERTASK_RESULT_OK, POWERTASK_RESULT_RETRY,
     POWERTASK_RESULT_FAIL_QUIET, POWERTASK_RESULT_FAIL_OUTPUT,
     POWERTASK_RESULT_LAST}

\* the const attribute struct the application declares for a task ID; every
\* other task is a Demo A of example_ABC.c (1000 J, function_A, no input,
\* one byte of output), the others are a Demo B (function_B, one byte of
\* input, one of output) that needs no energy
powertask_attribute_t(ID) ==
    [ID |-> ID,
     minimum_battery |-> IF (ID \div 4096) % 2 = 1 THEN 1000 ELSE 0,
     function |-> IF (ID \div 4096) % 2 = 1 THEN "function_A"
                  ELSE "function_B",
     input_length |-> IF (ID \div 4096) % 2 = 1 THEN 0 ELSE 1,
     output_length |-> 1]

\* the attribute struct of the builtin idle task
attributes_idle_task ==
    [ID |-> powertask_ID_builtin_idle, minimum_battery |-> 0,
     function |-> "powertask_idle_task",
     input_length |-> 0, output_length |-> 0]

\* the attribute of an ID that has no task struct
no_attribute ==
    [ID |-> NULL, minimum_battery |-> 0, function |-> "none",
     input_length |-> 0, output_length |-> 0]

----------------------------------------------------------------------------
VARIABLES
    registered_tasks,   \* root of the search tree, or NULL
    runnable_tasks,     \* current entry of the runnable list, or NULL
    attribute,          \* task -> its attribute struct (no_attribute: there
                        \* is no task struct for this ID)
    input, output,      \* task -> address of its telemetry buffer, or NULL
    heap,               \* the calloc'ed telemetry buffers, by address
    lower, higher,      \* task -> search tree links
    prev, next,         \* task -> runnable list links
    powertask_current_battery,
    pc,                 \* "driver", "task" (inside a task function),
                        \* "handle" (the function has returned its code),
                        \* "exit" (powertask_fatal), "segv"
    task,               \* the local `task` of the running powertask_run_next
    ncalls,             \* make_runnable calls made by the running function
    call,               \* history: the register / make_runnable call, if
                        \* that is what happened last
    step,               \* history: the powertask_run_next step, if that is
                        \* what happened last or is happening
    queued,             \* history: made runnable, no terminal result since
    finished,           \* history: terminal result, no make_runnable since
    rr,                 \* history: the observer of one round of the list
    copied              \* history: task -> the input byte its function_B
                        \* copied on its last invocation, or -1

vars == <<registered_tasks, runnable_tasks, attribute, input, output, heap,
          lower, higher, prev, next, powertask_current_battery, pc, task, ncalls,
          call, step, queued, finished, rr, copied>>

\* the scheduler's globals and the task structs as one record, for the
\* functions that are called from several places
G == [registered_tasks |-> registered_tasks, runnable_tasks |-> runnable_tasks,
      attribute |-> attribute, input |-> input, output |-> output,
      heap |-> heap,
      lower |-> lower, higher |-> higher, prev |-> prev, next |-> next,
      status |-> "ok", ret |-> NULL]

Store(g) ==
    /\ registered_tasks' = g.registered_tasks
    /\ runnable_tasks' = g.runnable_tasks
    /\ attribute' = g.attribute
    /\ input' = g.input
    /\ output' = g.output
    /\ heap' = g.heap
    /\ lower' = g.lower
    /\ higher' = g.higher
    /\ prev' = g.prev
    /\ next' = g.next

----------------------------------------------------------------------------
(* The registry search tree *)

\* powertask_link_into_tree with the second test a plain else: an equal ID
\* walks on to the higher side
RECURSIVE link_into_tree_no_collision(_, _, _)
link_into_tree_no_collision(g, parent, ID) ==
    IF g.attribute[parent].ID < ID
    THEN IF g.lower[parent] # NULL
         THEN link_into_tree_no_collision(g, g.lower[parent], ID)
         ELSE [g EXCEPT !.lower[parent] = ID]
    ELSE IF g.higher[parent] # NULL /\ g.higher[parent] # parent
         THEN link_into_tree_no_collision(g, g.higher[parent], ID)
         ELSE [g EXCEPT !.higher[parent] = ID]

\* powertask_link_into_tree: walk from parent and hang the task with this ID
\* on the first open branch; an equal ID is fatal.
RECURSIVE powertask_link_into_tree(_, _, _)
powertask_link_into_tree(g, parent, ID) ==
    IF g.attribute[parent].ID < ID
    THEN IF g.lower[parent] # NULL
         THEN powertask_link_into_tree(g, g.lower[parent], ID)
         ELSE [g EXCEPT !.lower[parent] = ID]
    ELSE IF g.attribute[parent].ID > ID
    THEN IF g.higher[parent] # NULL
         THEN powertask_link_into_tree(g, g.higher[parent], ID)
         ELSE [g EXCEPT !.higher[parent] = ID]
    ELSE [g EXCEPT !.status = "exit"]

\* The walk of powertask_task_lookup from parent: the task with this ID, or
\* NULL at a leaf.
RECURSIVE lookup_walk(_, _, _)
lookup_walk(g, parent, ID) ==
    IF g.attribute[parent].ID < ID
    THEN IF g.lower[parent] # NULL
         THEN lookup_walk(g, g.lower[parent], ID)
         ELSE NULL
    ELSE IF g.attribute[parent].ID > ID
    THEN IF g.higher[parent] # NULL
         THEN lookup_walk(g, g.higher[parent], ID)
         ELSE NULL
    ELSE parent

\* powertask_task_lookup.  It reads registered_tasks->attribute without a
\* check, so the caller must not use it on an empty registry (see the callers).
powertask_task_lookup(g, ID) == lookup_walk(g, g.registered_tasks, ID)

----------------------------------------------------------------------------
(* Telemetry buffers *)

\* powertask_allocate_telemetry: calloc of header + len bytes, all zero.
\* The new buffer's address is the next free one.
powertask_allocate_telemetry(h, len) ==
    Append(h, [header |-> [ID |-> 0, length |-> 0],
               data |-> [i \in 1..len |-> 0]])

----------------------------------------------------------------------------
(* The runnable list *)

\* powertask_make_runnable for a task that is not runnable: allocate the
\* telemetry slots it lacks and link it into the list at the cursor
link_runnable(g, t) ==
      LET h1 == IF g.input[t] = NULL
                THEN powertask_allocate_telemetry(g.heap,
                                                  g.attribute[t].input_length)
                ELSE g.heap
          in == IF g.input[t] = NULL THEN Len(h1) ELSE g.input[t]
          h2 == IF g.output[t] = NULL
                THEN powertask_allocate_telemetry(h1,
                                                  g.attribute[t].output_length)
                ELSE h1
          out == IF g.output[t] = NULL THEN Len(h2) ELSE g.output[t]
          g1 == [g EXCEPT !.heap = h2, !.input[t] = in, !.output[t] = out,
                          !.ret = in]
          cur == g.runnable_tasks
      IN IF cur = NULL
         THEN [g1 EXCEPT !.prev[t] = t, !.next[t] = t, !.runnable_tasks = t]
         ELSE \* task->next=runnable_tasks->next; runnable_tasks->next=task;
              \* task->prev=runnable_tasks; runnable_tasks=task;
              [g1 EXCEPT !.next = [g.next EXCEPT ![t] = g.next[cur],
                                                 ![cur] = t],
                         !.prev[t] = cur,
                         !.runnable_tasks = t]

\* powertask_make_runnable without its already-runnable test
make_runnable_relink(g, t) == link_runnable(g, t)

\* powertask_make_runnable that allocates the telemetry slots before its
\* already-runnable test, and without looking at what the task has
make_runnable_realloc(g, t) ==
    IF g.prev[t] # NULL
    THEN LET h1 == powertask_allocate_telemetry(g.heap,
                                                g.attribute[t].input_length)
             h2 == powertask_allocate_telemetry(h1,
                                                g.attribute[t].output_length)
         IN [g EXCEPT !.heap = h2, !.input[t] = Len(h1),
                      !.output[t] = Len(h2), !.ret = Len(h1)]
    ELSE link_runnable(g, t)

\* powertask_make_runnable, after its lookup found `t`
make_runnable_found(g, t) ==
    IF g.prev[t] # NULL
    THEN [g EXCEPT !.ret = g.input[t]]
    ELSE link_runnable(g, t)

\* powertask_make_runnable on a registry that is not empty
powertask_make_runnable(g, ID) ==
    LET t == powertask_task_lookup(g, ID)
    IN IF t = NULL THEN [g EXCEPT !.status = "exit"]
       ELSE make_runnable_found(g, t)

\* remove_task: the two assignments to the neighbours' links, in order, then
\* the cursor
remove_task(g, t) ==
    LET n1 == [g.next EXCEPT ![g.prev[t]] = g.next[t]]
        p1 == [g.prev EXCEPT ![n1[t]] = g.prev[t]]
    IN [g EXCEPT !.next = n1, !.prev = p1,
                 !.runnable_tasks = IF t = g.runnable_tasks THEN n1[t]
                                    ELSE g.runnable_tasks]

----------------------------------------------------------------------------
(* Registration *)

\* powertask_register of a later task (the registry is not empty): a zeroed
\* task struct, its attribute and cleared links, linked into the tree
register_later(g, attr) ==
    LET w == powertask_link_into_tree(g, g.registered_tasks, attr.ID)
    IN IF w.status = "exit" THEN w
       ELSE [w EXCEPT !.attribute[attr.ID] = attr,
                      !.prev[attr.ID] = NULL, !.next[attr.ID] = NULL]

\* powertask_setup that registers the idle task and does not make it
\* runnable
setup_idle_not_runnable(g) == register_later(g, attributes_idle_task)

\* powertask_setup: register the builtin idle task and make it runnable
powertask_setup(g) ==
    LET r == register_later(g, attributes_idle_task)
    IN IF r.status = "exit" THEN r
       ELSE powertask_make_runnable(r, powertask_ID_builtin_idle)

\* powertask_register / powertask_task_register
powertask_register(g, attr) ==
    IF g.registered_tasks = NULL
    THEN powertask_setup([g EXCEPT !.attribute[attr.ID] = attr,
                                   !.lower[attr.ID] = NULL,
                                   !.higher[attr.ID] = NULL,
                                   !.prev[attr.ID] = NULL,
                                   !.next[attr.ID] = NULL,
                                   !.registered_tasks = attr.ID])
    ELSE register_later(g, attr)

\* the members of the runnable list: what the successor links reach from the
\* cursor
RECURSIVE Reach(_, _, _)
Reach(nx, n, seen) ==
    IF n = NULL \/ n \in seen THEN seen
    ELSE Reach(nx, nx[n], seen \cup {n})

Members == Reach(next, runnable_tasks, {})

\* the IDs that have a task struct
Registered == {t \in IDs : attribute[t].ID # NULL}

\* the tasks of the search tree below and including task n
RECURSIVE Subtree(_)
Subtree(n) ==
    IF n = NULL THEN {}
    ELSE {n} \cup Subtree(lower[n]) \cup Subtree(higher[n])

\* int powertask_run_next returns: runnable_tasks != runnable_tasks->next
more_tasks(g) ==
    IF g.runnable_tasks # g.next[g.runnable_tasks] THEN 1 ELSE 0

----------------------------------------------------------------------------
(* The initial state: the statics of powertask_builtin.c, nothing registered *)

\* `ret` is what the call returned to its caller
no_call == [op |-> "none", id |-> NULL, by |-> "driver", member |-> FALSE,
            was_finished |-> FALSE, known |-> FALSE, ret |-> NULL]
no_step == [phase |-> "none", id |-> NULL, was_finished |-> FALSE,
            result |-> 0, ret |-> 0]

\* The observer of a round.  It is off, or it waits for a dispatch to
\* observe; it picks one ("first": task T runs, `watch` are the other
\* members); when T returns retry the round is open and the observer notes
\* the watched tasks that are attempted (`seen`) and attempted again
\* (`twice`) until T is attempted again; when that attempt runs T ("second")
\* and T returns retry again the round is closed.
no_rr == [mode |-> "off", T |-> NULL, watch |-> {}, seen |-> {}, twice |-> {}]
rr_wait == [no_rr EXCEPT !.mode = "wait"]

\* the observer when a step attempts the task c at the cursor: the function
\* is invoked, or the battery is too low
rr_attempt(c, invoked) ==
    IF rr.mode \in {"wait", "closed"}
    THEN IF invoked
         THEN {rr_wait, [mode |-> "first", T |-> c, watch |-> Members \ {c},
                         seen |-> {}, twice |-> {}]}
         ELSE {rr_wait}
    ELSE IF rr.mode = "open"
    THEN IF c = rr.T
         THEN IF invoked THEN {[rr EXCEPT !.mode = "second"]} ELSE {rr_wait}
         ELSE IF c \in rr.watch
         THEN {[rr EXCEPT !.seen = @ \cup {c},
                          !.twice = IF c \in rr.seen THEN @ \cup {c} ELSE @]}
         ELSE {rr}
    ELSE {rr}

\* the observer when the function of the running task returns
rr_return(result) ==
    IF rr.mode = "first"
    THEN IF result = POWERTASK_RESULT_RETRY THEN [rr EXCEPT !.mode = "open"]
         ELSE rr_wait
    ELSE IF rr.mode = "second"
    THEN IF result = POWERTASK_RESULT_RETRY THEN [rr EXCEPT !.mode = "closed"]
         ELSE rr_wait
    ELSE rr

\* the statics of powertask_builtin.c before the first call
Statics ==
    /\ registered_tasks = NULL
    /\ runnable_tasks = NULL
    /\ attribute = [t \in IDs |-> no_attribute]
    /\ input = [t \in IDs |-> NULL]
    /\ output = [t \in IDs |-> NULL]
    /\ heap = << >>
    /\ lower = [t \in IDs |-> NULL]
    /\ higher = [t \in IDs |-> NULL]
    /\ prev = [t \in IDs |-> NULL]
    /\ next = [t \in IDs |-> NULL]
    /\ powertask_current_battery = 30000
    /\ pc = "driver"
    /\ task = NULL
    /\ ncalls = 0
    /\ call = no_call
    /\ step = no_step
    /\ queued = {}
    /\ finished = {}
    /\ copied = [t \in IDs |-> -1]

Init == Statics /\ rr = no_rr

\* the same program with the observer of rounds at work
InitRR == Statics /\ rr = rr_wait

----------------------------------------------------------------------------
(* The calls of the driver *)

\* the driver calls powertask_register(&attr) with a descriptor of its own
Register(ID) ==
    /\ pc = "driver"
    /\ LET g == powertask_register(G, powertask_attribute_t(ID))
       IN /\ Store(g)
          /\ pc' = IF g.status = "ok" THEN "driver" ELSE g.status
          /\ queued' = IF g.status = "ok" /\ registered_tasks = NULL
                       THEN queued \cup {powertask_ID_builtin_idle}
                       ELSE queued
    /\ call' = [op |-> "register", id |-> ID, by |-> "driver",
                member |-> ID \in Members, was_finished |-> ID \in finished,
                known |-> ID \in Registered, ret |-> NULL]
    /\ step' = no_step
    /\ UNCHANGED <<powertask_current_battery, task, ncalls, finished, rr,
                   copied>>

\* what a powertask_make_runnable(ID) call does, made by the driver or by
\* the running task function.  On an empty registry the lookup reads through
\* the null root pointer: the process is killed, or the read yields whatever
\* is at address 0 and the lookup ends in not found.
MakeRunnableCall(ID, by) ==
    LET c == [op |-> "make_runnable", id |-> ID, by |-> by,
              member |-> ID \in Members, was_finished |-> ID \in finished,
              known |-> ID \in Registered, ret |-> NULL]
    IN
    IF registered_tasks = NULL
       THEN /\ pc' \in {"segv", "exit"}
            /\ call' = c
            /\ UNCHANGED <<registered_tasks, runnable_tasks, attribute, input,
                           output, heap, lower, higher, prev, next,
                           queued, finished>>
       ELSE LET g == powertask_make_runnable(G, ID)
            IN /\ Store(g)
               /\ pc' = IF g.status = "ok" THEN pc ELSE g.status
               /\ call' = [c EXCEPT !.ret = g.ret]
               /\ queued' = IF g.status = "ok" /\ prev[ID] = NULL
                            THEN queued \cup {ID} ELSE queued
               /\ finished' = IF g.status = "ok" THEN finished \ {ID}
                              ELSE finished

\* the driver calls powertask_make_runnable(ID)
MakeRunnable(ID) ==
    /\ pc = "driver"
    /\ MakeRunnableCall(ID, "driver")
    /\ step' = no_step
    /\ UNCHANGED <<powertask_current_battery, task, ncalls, rr, copied>>

\* the driver calls powertask_task_lookup(ID).  On an empty registry it reads
\* registered_tasks->attribute through the null root pointer: the process is
\* killed, or the read yields whatever is at address 0 and the walk ends
\* with a null pointer.
Lookup(ID) ==
    /\ pc = "driver"
    /\ IF registered_tasks = NULL
       THEN pc' \in {"segv", "driver"}
       ELSE pc' = pc
    /\ call' = [op |-> "lookup", id |-> ID, by |-> "driver",
                member |-> ID \in Members, was_finished |-> ID \in finished,
                known |-> ID \in Registered,
                ret |-> IF registered_tasks = NULL THEN NULL
                        ELSE powertask_task_lookup(G, ID)]
    /\ step' = no_step
    /\ UNCHANGED <<registered_tasks, runnable_tasks, attribute, input, output,
                   heap, lower, higher, prev, next, powertask_current_battery,
                   task, ncalls, queued, finished, rr, copied>>

\* the energy source reports another amount of energy
BatteryChange(e) ==
    /\ pc = "driver"
    /\ e # powertask_current_battery
    /\ powertask_current_battery' = e
    /\ call' = no_call
    /\ step' = no_step
    /\ UNCHANGED <<registered_tasks, runnable_tasks, attribute, input, output,
                   heap, lower, higher, prev, next, pc, task, ncalls,
                   queued, finished, rr, copied>>

----------------------------------------------------------------------------
(* powertask_run_next: one scheduling step.  The step is split where the
   task function is called: the function may call powertask_make_runnable
   before it returns its result code. *)

\* the admission check with > for >=
enough_battery_strict(have, need_battery) == have > need_battery

\* the admission check: we have the energy to run this now
enough_battery(have, need_battery) == have >= need_battery

\* powertask_run_next up to the call of the task function: the admission
\* check, and the whole step when the battery is too low.  With no runnable
\* task at all it reads through the null cursor.
RunNext ==
    /\ pc = "driver"
    /\ IF runnable_tasks = NULL
       THEN /\ pc' = "segv"
            /\ UNCHANGED <<runnable_tasks, task, ncalls, step, rr>>
       ELSE LET need_battery == attribute[runnable_tasks].minimum_battery
                info == [no_step EXCEPT !.id = runnable_tasks,
                            !.was_finished = runnable_tasks \in finished]
            IN IF enough_battery(powertask_current_battery, need_battery)
                  THEN /\ pc' = "task"
                       /\ task' = runnable_tasks
                       /\ step' = [info EXCEPT !.phase = "invoked"]
                       /\ rr' \in rr_attempt(runnable_tasks, TRUE)
                       /\ UNCHANGED <<runnable_tasks, ncalls>>
                  ELSE /\ runnable_tasks' = next[runnable_tasks]
                       /\ step' = [info EXCEPT !.phase = "gated",
                                     !.ret = more_tasks([G EXCEPT
                                       !.runnable_tasks = next[runnable_tasks]])]
                       /\ rr' \in rr_attempt(runnable_tasks, FALSE)
                       /\ UNCHANGED <<pc, task, ncalls>>
    /\ call' = no_call
    /\ UNCHANGED <<registered_tasks, attribute, input, output, heap, lower,
                   higher, prev, next, powertask_current_battery,
                   queued, finished, copied>>

\* the running task function calls powertask_make_runnable(ID); the builtin
\* idle task makes no calls
TaskMakeRunnable(ID) ==
    /\ pc = "task"
    /\ task # powertask_ID_builtin_idle
    /\ ncalls < MaxCalls
    /\ ncalls' = ncalls + 1
    /\ MakeRunnableCall(ID, "task")
    /\ UNCHANGED <<powertask_current_battery, task, step, rr, copied>>

\* what powertask_run_next does with the result code of the function
handle_result(g, t, result) ==
    IF result = POWERTASK_RESULT_RETRY
    THEN [g EXCEPT !.runnable_tasks = g.next[g.runnable_tasks]]
    ELSE IF result = POWERTASK_RESULT_OK
    THEN remove_task(g, t)
    ELSE IF result >= POWERTASK_RESULT_FAIL_QUIET
            /\ result < POWERTASK_RESULT_FAIL_OUTPUT
    THEN remove_task(g, t)
    ELSE IF result >= POWERTASK_RESULT_FAIL_OUTPUT
            /\ result < POWERTASK_RESULT_LAST
    THEN remove_task(g, t)
    ELSE [g EXCEPT !.status = "exit"]

\* the result codes that say the task is complete or has failed
Terminal(result) ==
    \/ result = POWERTASK_RESULT_OK
    \/ result >= POWERTASK_RESULT_FAIL_QUIET /\ result < POWERTASK_RESULT_LAST

\* powertask_run_next from the return of the function to its own return
FinishStep(result) ==
    /\ LET g == handle_result(G, task, result)
       IN /\ Store(g)
          /\ IF g.status = "ok"
             THEN /\ pc' = "driver"
                  /\ step' = [step EXCEPT !.phase = "returned",
                                          !.result = result,
                                          !.ret = more_tasks(g)]
                  /\ queued' = IF Terminal(result) THEN queued \ {task}
                               ELSE queued
                  /\ finished' = IF Terminal(result)
                                 THEN finished \cup {task} ELSE finished
             ELSE /\ pc' = g.status
                  /\ step' = [step EXCEPT !.phase = "fatal",
                                          !.result = result]
                  /\ UNCHANGED <<queued, finished>>
    /\ call' = no_call
    /\ task' = NULL
    /\ ncalls' = 0
    /\ rr' = rr_return(result)
    /\ UNCHANGED <<powertask_current_battery, copied>>

\* the task function returns and powertask_run_next finishes the step.
\* powertask_idle_task returns POWERTASK_RESULT_RETRY.
TaskReturn(result) ==
    /\ pc = "task"
    /\ task = powertask_ID_builtin_idle => result = POWERTASK_RESULT_RETRY
    /\ FinishStep(result)

----------------------------------------------------------------------------
\* the calls after registration, and the steps of the running task function
Schedule ==
    \/ \E ID \in IDs : MakeRunnable(ID)
    \/ \E e \in Batteries : BatteryChange(e)
    \/ RunNext
    \/ \E ID \in IDs : TaskMakeRunnable(ID)
    \/ \E result \in ResultCodes : TaskReturn(result)

\* the application registers its descriptors, and may register one with the
\* reserved ID of the idle task
Next ==
    \/ \E ID \in AppIDs \cup {powertask_ID_builtin_idle} : Register(ID)
    \/ Schedule

Spec == Init /\ [][Next]_vars

\* the larger application: it has a descriptor for every ID
NextWide ==
    \/ \E ID \in IDs : Register(ID)
    \/ Schedule

SpecWide == Init /\ [][NextWide]_vars

\* the application also looks tasks up
NextLookup ==
    \/ \E ID \in IDs : Lookup(ID)
    \/ Next

SpecLookup == Init /\ [][NextLookup]_vars

\* the program under the observer of rounds
SpecRR == InitRR /\ [][Next]_vars

\* the result codes of powertask.h that a function may return
ValidCodes ==
    {POWERTASK_RESULT_OK, POWERTASK_RESULT_RETRY,
     POWERTASK_RESULT_FAIL_QUIET, POWERTASK_RESULT_FAIL_OUTPUT}

\* the main loop of example_ABC.c: while (powertask_run_next()) {}, kept
\* running
LoopRunNext == registered_tasks # NULL /\ RunNext

\* a task function returns, with a valid code
ValidReturn == \E result \in ValidCodes : TaskReturn(result)

\* an application that keeps to the interface: it registers every
\* descriptor once, names registered tasks only, its functions return valid
\* codes, and it calls powertask_run_next again and again
NextLoop ==
    \/ \E ID \in AppIDs \ Registered : Register(ID)
    \/ \E ID \in Registered : MakeRunnable(ID)
    \/ \E e \in Batteries : BatteryChange(e)
    \/ LoopRunNext
    \/ \E ID \in Registered : TaskMakeRunnable(ID)
    \/ ValidReturn

\* every started function returns, and the loop goes on calling
\* powertask_run_next
SpecLoop ==
    Init /\ [][NextLoop]_vars /\ WF_vars(LoopRunNext) /\ WF_vars(ValidReturn)

----------------------------------------------------------------------------
(* The task functions of example_ABC.c and the bytes of the telemetry
   buffers.  A powertask_data_t is an unsigned char. *)

\* the two descriptors of example_ABC.c: attributes_A (0xA123 there) and
\* attributes_B (0xB007 there, the task function_A makes runnable)
DemoA == 4096 * 1
DemoB == 4096 * 2
ExampleIDs == {DemoA, DemoB}

\* the bytes a caller stores into the input buffer it got
Bytes == {0, char_B, 255}

\* buffer->data[0] = b
store_byte(g, buffer, b) == [g EXCEPT !.heap[buffer].data[1] = b]

\* function_A up to its return statement
function_A(g, in, out) ==
    LET g1 == store_byte(g, out, char_A)
        g2 == powertask_make_runnable(g1, DemoB)
    IN IF g2.status = "ok" THEN store_byte(g2, g2.ret, char_B) ELSE g2

\* function_B: the state it leaves and the code it returns
function_B(g, in, out) ==
    IF g.heap[out].data[1] = 0
    THEN [g |-> store_byte(g, out, g.heap[in].data[1]),
          result |-> POWERTASK_RESULT_RETRY]
    ELSE [g |-> store_byte(g, out, (g.heap[out].data[1] + 1) % 256),
          result |-> POWERTASK_RESULT_OK]

\* the caller of powertask_make_runnable stores a byte into the input
\* buffer the call returned
Fill(b) ==
    /\ pc = "driver"
    /\ call.op = "make_runnable" /\ call.ret # NULL
    /\ Len(heap[call.ret].data) >= 1
    /\ heap' = store_byte(G, call.ret, b).heap
    /\ call' = no_call
    /\ UNCHANGED <<registered_tasks, runnable_tasks, attribute, input, output,
                   lower, higher, prev, next, powertask_current_battery, pc,
                   task, ncalls, step, queued, finished, rr, copied>>

\* powertask_run_next has called a function_A, which runs up to its return.
\* In example_ABC.c it returns POWERTASK_RESULT_OK; here, any valid code.
RunA(result) ==
    /\ pc = "task"
    /\ attribute[task].function = "function_A"
    /\ LET g == function_A(G, input[task], output[task])
       IN /\ Store(g)
          /\ pc' = IF g.status = "ok" THEN "handle" ELSE g.status
          /\ queued' = IF g.status = "ok" /\ prev[DemoB] = NULL
                       THEN queued \cup {DemoB} ELSE queued
          /\ finished' = IF g.status = "ok" THEN finished \ {DemoB}
                         ELSE finished
          /\ call' = [op |-> "make_runnable", id |-> DemoB, by |-> "task",
                      member |-> DemoB \in Members,
                      was_finished |-> DemoB \in finished,
                      known |-> DemoB \in Registered, ret |-> g.ret]
    /\ step' = [step EXCEPT !.result = result]
    /\ UNCHANGED <<powertask_current_battery, task, ncalls, rr, copied>>

\* powertask_run_next has called a function_B, which runs and returns
RunB ==
    /\ pc = "task"
    /\ attribute[task].function = "function_B"
    /\ LET f == function_B(G, input[task], output[task])
       IN /\ Store(f.g)
          /\ step' = [step EXCEPT !.result = f.result]
          /\ copied' = [copied EXCEPT ![task] =
                           IF f.result = POWERTASK_RESULT_RETRY
                           THEN heap[input[task]].data[1] ELSE -1]
    /\ pc' = "handle"
    /\ UNCHANGED <<powertask_current_battery, task, ncalls, call, queued,
                   finished, rr>>

\* powertask_run_next has called powertask_idle_task
RunIdle ==
    /\ pc = "task"
    /\ attribute[task].function = "powertask_idle_task"
    /\ step' = [step EXCEPT !.result = POWERTASK_RESULT_RETRY]
    /\ pc' = "handle"
    /\ UNCHANGED <<registered_tasks, runnable_tasks, attribute, input, output,
                   heap, lower, higher, prev, next, powertask_current_battery,
                   task, ncalls, call, queued, finished, rr, copied>>

\* the function has returned: powertask_run_next handles its result code
HandleResult ==
    /\ pc = "handle"
    /\ FinishStep(step.result)

\* the application of example_ABC.c, with any order of its calls: it
\* registers its two descriptors once, makes registered tasks runnable and
\* fills their input, and calls powertask_run_next
NextABC ==
    \/ \E ID \in ExampleIDs \ Registered : Register(ID)
    \/ \E ID \in Registered : MakeRunnable(ID)
    \/ \E b \in Bytes : Fill(b)
    \/ \E e \in Batteries : BatteryChange(e)
    \/ LoopRunNext
    \/ \E result \in ValidCodes : RunA(result)
    \/ RunB
    \/ RunIdle
    \/ HandleResult

SpecABC == Init /\ [][NextABC]_vars

----------------------------------------------------------------------------
(* Properties *)

Running == pc \in {"driver", "task"}

\* C1: the links of the runnable list are mutually consistent: every member
\* is the predecessor of its successor and the successor of its predecessor.
C1_LinksConsistent ==
    \A m \in Members : prev[next[m]] = m /\ next[prev[m]] = m

\* C2: a task that returned success or a failure code is out of the runnable
\* list, and no step dispatches it, until powertask_make_runnable is called
\* for it again.
C2_FinishedNotDispatched ==
    /\ \A t \in finished : t \notin Members
    /\ step.phase # "none" => ~step.was_finished

\* C3: a task that was linked into the runnable list and has not returned a
\* terminal result since is still reached from the cursor.
C3_QueuedStaysMember ==
    Running => \A t \in queued : t \in Members

\* C4: a task's two links are both unset exactly when it is not in the
\* runnable list.
C4_LinksUnsetIffNotMember ==
    \A t \in IDs : (prev[t] = NULL /\ next[t] = NULL) <=> t \notin Members

\* C5: powertask_make_runnable for a task that a step removed puts it back
\* into the runnable list.
C5_RearmedIsMember ==
    (Running /\ call.op = "make_runnable" /\ call.was_finished)
        => call.id \in Members

\* C6: powertask_make_runnable for a member of the runnable list changes
\* nothing (members, links, cursor, buffers) and returns its input buffer.
C6_MakeRunnableMemberNoop ==
    registered_tasks # NULL =>
        \A ID \in Members :
            powertask_make_runnable(G, ID) = [G EXCEPT !.ret = input[ID]]

C6_Witness ==
    /\ call.op = "make_runnable" /\ call.member /\ pc = "task"
    /\ Cardinality(Members) = NumApp + 1
    /\ call.ret = input[call.id] /\ call.ret # NULL

\* C7: a step runs the function of the task at the cursor exactly when the
\* battery is at least its minimum_battery; otherwise the task stays in the
\* runnable list and the cursor moves to its successor.
C7_Admission ==
    LET need == attribute[step.id].minimum_battery
    IN /\ step.phase = "gated" =>
            /\ powertask_current_battery < need
            /\ pc = "driver"
            /\ step.id \in Members
            /\ runnable_tasks = next[step.id]
       /\ step.phase \in {"invoked", "returned", "fatal"} =>
            powertask_current_battery >= need
       /\ step.phase = "invoked" => pc \in {"task", "exit"} /\ task = step.id

C7_WitnessGated ==
    /\ step.phase = "gated" /\ Cardinality(Members) = NumApp + 1
    /\ powertask_current_battery = 0
    /\ attribute[step.id].minimum_battery = 1000

\* C8: once anything is registered the idle task is registered and is a
\* member of the runnable list.
C8_IdleAlwaysMember ==
    (Running /\ registered_tasks # NULL) =>
        /\ powertask_ID_builtin_idle \in Registered
        /\ powertask_task_lookup(G, powertask_ID_builtin_idle)
               = powertask_ID_builtin_idle
        /\ powertask_ID_builtin_idle \in Members
        /\ Cardinality(Members) >= 1

C8_Witness ==
    /\ pc = "driver" /\ step.phase = "returned" /\ Terminal(step.result)
    /\ finished = AppIDs
    /\ powertask_ID_builtin_idle \in Members

C10_RegisterUniqueIDs ==
    call.op = "register" =>
        /\ pc = "exit" <=>
              (call.known \/ call.id = powertask_ID_builtin_idle)
        /\ pc # "exit" =>
              /\ pc = "driver"
              /\ powertask_task_lookup(G, call.id) = call.id
              /\ attribute[call.id].ID = call.id

C10_WitnessCollision ==
    /\ call.op = "register" /\ pc = "exit" /\ call.known
    /\ call.id \in AppIDs /\ call.id # registered_tasks
    /\ Cardinality(Registered) = NumApp + 1

\* C11: powertask_task_lookup returns the task registered with the ID when
\* there is one and the null pointer otherwise, in every state of the
\* registry, the empty one included.
C11_LookupFindsRegistered ==
    call.op = "lookup" =>
        /\ pc = "driver"
        /\ call.ret = IF call.known THEN call.id ELSE NULL

\* C12: powertask_make_runnable for an ID that is not registered ends in
\* powertask_fatal and changes neither the runnable list nor the cursor, in
\* every state, the empty registry included.
C12_UnknownIsFatal ==
    /\ (call.op = "make_runnable" /\ ~call.known) => pc = "exit"
    /\ registered_tasks # NULL =>
          \A ID \in IDs \ Registered :
              powertask_make_runnable(G, ID) = [G EXCEPT !.status = "exit"]

\* C13: a step ends in powertask_fatal exactly when the function returned a
\* code that is not success, retry, or in one of the two failure ranges;
\* after retry the task is still in the runnable list, after the other
\* valid codes it is out of it.
C13_ResultCodes ==
    LET valid == \/ step.result = POWERTASK_RESULT_OK
                 \/ step.result = POWERTASK_RESULT_RETRY
                 \/ step.result >= 8192 /\ step.result < 16384
                 \/ step.result >= 16384 /\ step.result < 24576
    IN /\ step.phase = "fatal" => pc = "exit" /\ ~valid
       /\ step.phase = "returned" =>
            /\ pc = "driver" /\ valid
            /\ step.result = POWERTASK_RESULT_RETRY => step.id \in Members
            /\ step.result # POWERTASK_RESULT_RETRY => step.id \notin Members

\* C14: every telemetry buffer allocated for a task has a zero payload of
\* the declared length and a header that holds the task's ID and that
\* length.
C14_BuffersTagged ==
    \A t \in Registered :
        /\ input[t] # NULL =>
             /\ heap[input[t]].header =
                    [ID |-> attribute[t].ID,
                     length |-> attribute[t].input_length]
             /\ heap[input[t]].data =
                    [i \in 1..attribute[t].input_length |-> 0]
        /\ output[t] # NULL =>
             /\ heap[output[t]].header =
                    [ID |-> attribute[t].ID,
                     length |-> attribute[t].output_length]
             /\ heap[output[t]].data =
                    [i \in 1..attribute[t].output_length |-> 0]

\* C18: after a step whose function returned retry the cursor is on the
\* successor of the task that ran, also when the function made another task
\* runnable.
C18_RetryCursorIsSuccessor ==
    (step.phase = "returned" /\ step.result = POWERTASK_RESULT_RETRY)
        => runnable_tasks = next[step.id]

\* C20: in the search tree every task below a node's lower link has a
\* smaller ID than the node, and every task below its higher link a larger
\* one.
C20_TreeOrdered ==
    \A n \in Registered :
        /\ \A m \in Subtree(lower[n]) : attribute[m].ID < attribute[n].ID
        /\ \A m \in Subtree(higher[n]) : attribute[m].ID > attribute[n].ID

\* C17: between two consecutive dispatches of a task that both return retry,
\* every other task that was in the runnable list at the first of them is
\* attempted (gated or run) at most once.
C17_RoundRobin ==
    rr.mode = "closed" => rr.twice = {}

\* C19: a task made runnable while it is not in the runnable list is
\* attempted (gated or run) by a later step, when the loop keeps calling
\* powertask_run_next and every function returns a valid code.
C19_EventuallyDispatched ==
    \A t \in IDs :
        (call.op = "make_runnable" /\ call.id = t /\ ~call.member)
            ~> (step.phase \in {"gated", "invoked"} /\ step.id = t)

\* what every step keeps of the telemetry buffers: the buffers a task has
\* stay its buffers, no buffer changes its header or its size, and the
\* steps of powertask_make_runnable and powertask_run_next (a call of the
\* driver, the admission check, the handling of the result code) leave
\* every payload as it is
BuffersKept ==
    /\ \A t \in IDs :
         /\ input[t] # NULL => input'[t] = input[t]
         /\ output[t] # NULL => output'[t] = output[t]
    /\ \A a \in 1..Len(heap) :
         /\ heap'[a].header = heap[a].header
         /\ Len(heap'[a].data) = Len(heap[a].data)
    /\ (\/ pc = "handle"
        \/ pc = "driver" /\ step'.phase \in {"gated", "invoked"}
        \/ pc = "driver" /\ call'.op = "make_runnable")
          => \A a \in 1..Len(heap) : heap'[a] = heap[a]

\* C15 as stated: the buffers of a task are allocated once and never
\* replaced or changed by the scheduler, so a function_B that copied its
\* input byte and returned retry leaves input byte + 1 in its output when
\* its next invocation returns success.
C15_OutputIsInputPlusOne ==
    [][/\ BuffersKept
       /\ (/\ pc = "task" /\ pc' = "handle"
           /\ attribute[task].function = "function_B"
           /\ step'.result = POWERTASK_RESULT_OK
           /\ copied[task] # -1)
             => heap'[output[task]].data[1] = copied[task] + 1]_vars

\* C15, amended: the same, and the output byte is input byte + 1 modulo 256
\* (an unsigned char).
C15_OutputIsInputPlusOneMod256 ==
    [][/\ BuffersKept
       /\ (/\ pc = "task" /\ pc' = "handle"
           /\ attribute[task].function = "function_B"
           /\ step'.result = POWERTASK_RESULT_OK
           /\ copied[task] # -1)
             => heap'[output[task]].data[1] = (copied[task] + 1) % 256]_vars

C15_Witness ==
    /\ pc = "driver" /\ step.phase = "returned"
    /\ step.result = POWERTASK_RESULT_OK
    /\ attribute[step.id].function = "function_B"
    /\ heap[input[step.id]].data[1] = char_B
    /\ heap[output[step.id]].data[1] = char_B + 1

\* C16: after a step in which a function_A ran, made Demo B runnable and
\* stored 'B' into the returned buffer, Demo B is in the runnable list and
\* its input byte is 'B', whatever valid code the function returned.
C16_TriggeredIsMember ==
    (pc = "driver" /\ step.phase = "returned"
     /\ attribute[step.id].function = "function_A")
        => /\ DemoB \in Members
           /\ heap[input[DemoB]].data[1] = char_B

====
